---- MODULE Spec2Model ----
(***************************************************************************)
(* Retrieval-confidence decision workflow of the RAG question answering    *)
(* system: QASystem.ask -> QAWorkflow.run -> the six graph nodes and the   *)
(* two routing functions, with the retriever's relevance assessment, the   *)
(* insufficiency classifier and the answer generator they call.            *)
(*                                                                         *)
(* Conventions.                                                            *)
(*  - Python None is <<>> and a present value v is <<v>> (None / Some).    *)
(*  - A float is a fraction <<num, den>> with den > 0, kept in lowest      *)
(*    terms, whose value is a binary floating-point number of Precision    *)
(*    significant bits; every float operation is the exact operation       *)
(*    followed by rounding to nearest, ties to even, as IEEE 754 does with *)
(*    53 bits.  The exponent is unbounded.                                 *)
(*  - An answer text is the sequence of its words; a query or question is  *)
(*    the sequence of its characters.                                      *)
(*  - A dict whose key set changes (relevance_assessment, metadata) is a   *)
(*    function whose DOMAIN is the key set.                                *)
(***************************************************************************)
EXTENDS Integers, Sequences, FiniteSets, TLC

(***************************************************************************)
(* Bounds of the model.                                                    *)
(***************************************************************************)
\* largest number of passages the vector index returns in the model
MaxDocs == 2
\* largest number of results the web search returns in the model
MaxWeb == 2
\* significant bits of a float in the model (53 in a Python float)
Precision == 5

None == <<>>
Some(v) == <<v>>

(***************************************************************************)
(* Exact arithmetic on fractions <<n, d>>, d > 0.                          *)
(***************************************************************************)
RECURSIVE GCD(_, _)
GCD(a, b) == IF b = 0 THEN a ELSE GCD(b, a % b)

Norm(r) ==
    LET g == GCD(IF r[1] < 0 THEN -r[1] ELSE r[1], r[2])
    IN  IF g = 0 THEN <<0, 1>> ELSE <<r[1] \div g, r[2] \div g>>

RAdd(a, b) == Norm(<<a[1] * b[2] + b[1] * a[2], a[2] * b[2]>>)
RMul(a, b) == Norm(<<a[1] * b[1], a[2] * b[2]>>)
\* a / b for b > 0
RDiv(a, b) == Norm(<<a[1] * b[2], a[2] * b[1]>>)
RGeq(a, b) == a[1] * b[2] >= b[1] * a[2]
RLt(a, b) == ~RGeq(a, b)
RZero == <<0, 1>>
ROne == <<1, 1>>

RECURSIVE RSum(_)
RSum(s) == IF s = <<>> THEN RZero ELSE RAdd(s[1], RSum(Tail(s)))

(***************************************************************************)
(* Floating-point arithmetic: the exact result rounded to Precision bits.  *)
(***************************************************************************)
RECURSIVE Pow2(_)
Pow2(k) == IF k = 0 THEN 1 ELSE 2 * Pow2(k - 1)

\* m * 2^k as a fraction
Scaled(m, k) == IF k >= 0 THEN Norm(<<m * Pow2(k), 1>>) ELSE Norm(<<m, Pow2(-k)>>)

\* round a fraction r > 0 whose exponent has been brought to k, that is
\* 2^(Precision-1) <= r < 2^Precision, to the nearest integer, ties to even
RECURSIVE RoundScaled(_, _)
RoundScaled(r, k) ==
    IF r[1] >= Pow2(Precision) * r[2] THEN RoundScaled(<<r[1], 2 * r[2]>>, k + 1)
    ELSE IF r[1] < Pow2(Precision - 1) * r[2] THEN RoundScaled(<<2 * r[1], r[2]>>, k - 1)
    ELSE LET m == r[1] \div r[2]
             rest == 2 * (r[1] % r[2])
             up == rest > r[2] \/ (rest = r[2] /\ m % 2 = 1)
         IN  Scaled(IF up THEN m + 1 ELSE m, k)

\* the float nearest to the non-negative fraction r
Round(r) == IF r[1] = 0 THEN RZero ELSE RoundScaled(Norm(r), 0)

FAdd(a, b) == Round(RAdd(a, b))
FMul(a, b) == Round(RMul(a, b))
FDiv(a, b) == Round(RDiv(a, b))

\* sum(xs): the built-in folds from the left, starting at 0
RECURSIVE FSumFrom(_, _)
FSumFrom(acc, s) == IF s = <<>> THEN acc ELSE FSumFrom(FAdd(acc, s[1]), Tail(s))
FSum(s) == FSumFrom(RZero, s)

(***************************************************************************)
(* Program constants (config/settings.py); a float literal is the float    *)
(* nearest to the decimal written.                                         *)
(***************************************************************************)
RELEVANCE_THRESHOLD == Round(<<1, 2>>)
MIN_CONFIDENCE_SCORE == Round(<<2, 5>>)
TOP_K_RETRIEVAL == 5
MAX_SEARCH_RESULTS == 5

RECURSIVE RMax(_)
RMax(s) ==
    IF Len(s) = 1 THEN s[1]
    ELSE LET m == RMax(Tail(s)) IN IF RGeq(s[1], m) THEN s[1] ELSE m

(***************************************************************************)
(* Dict helpers.                                                           *)
(***************************************************************************)
EmptyDict == [x \in {} |-> 0]
Put(m, k, v) == [x \in (DOMAIN m) \cup {k} |-> IF x = k THEN v ELSE m[x]]
Get(m, k, default) == IF k \in DOMAIN m THEN m[k] ELSE default

(***************************************************************************)
(* Vector index collaborator: what similarity_search_with_score returns.   *)
(***************************************************************************)
\* chunks held by the index: page numbers start at 1 (pdf_loader), and two
\* chunks may come from the same page
Corpus ==
    { [page |-> 1, source |-> "kb.pdf", content |-> "alpha"],
      [page |-> 1, source |-> "kb.pdf", content |-> "beta"],
      [page |-> 2, source |-> "kb.pdf", content |-> "gamma"] }

\* L2 distances the index reports: similarities 1, 1/2 and about 1/10
Distances == { <<0, 1>>, <<1, 1>>, <<9, 1>> }

\* ranked (chunk, distance) lists: distinct chunks, best (smallest distance)
\* first, at most MaxDocs of them (MaxDocs stands for k = TOP_K_RETRIEVAL)
RankedResults(distances) ==
    UNION { { r \in [1..n -> [doc : Corpus, distance : distances]] :
                /\ \A i, j \in 1..n : i # j => r[i].doc # r[j].doc
                /\ \A i \in 1..n : i < n => RGeq(r[i + 1].distance, r[i].distance) }
            : n \in 0..(IF MaxDocs < TOP_K_RETRIEVAL THEN MaxDocs ELSE TOP_K_RETRIEVAL) }

IndexResults == RankedResults(Distances)

(***************************************************************************)
(* RAGRetriever                                                            *)
(***************************************************************************)
\* variant: the shifted distance is not inverted
SimilarityUninverted(d) == FAdd(ROne, d)

\* similarity = 1.0 / (1.0 + distance)
Similarity(d) == FDiv(ROne, FAdd(ROne, d))

\* retrieve: (documents, normalized_scores) from the index result list
retrieve(results) ==
    IF results = <<>>
    THEN [documents |-> <<>>, scores |-> <<>>]
    ELSE [documents |-> [i \in 1..Len(results) |-> results[i].doc],
          scores |-> [i \in 1..Len(results) |-> Similarity(results[i].distance)]]

\* variant: the weighted sum is not divided by the total weight
WeightedSumUnnormalised(similarity_scores) ==
    IF similarity_scores = <<>>
    THEN RZero
    ELSE LET n == Len(similarity_scores)
             weights == [p \in 1..n |-> FDiv(ROne, <<p, 1>>)]
         IN  FSum([p \in 1..n |-> FMul(similarity_scores[p], weights[p])])

\* helpers.calculate_relevance_score: weights 1/(i+1) over 0-indexed ranks;
\* position p of the sequence is rank p - 1, so its weight is 1/p
calculate_relevance_score(similarity_scores) ==
    IF similarity_scores = <<>>
    THEN RZero
    ELSE LET n == Len(similarity_scores)
             weights == [p \in 1..n |-> FDiv(ROne, <<p, 1>>)]
             weighted_sum == FSum([p \in 1..n |-> FMul(similarity_scores[p], weights[p])])
             weight_total == FSum(weights)
         IN  IF weight_total[1] > 0 THEN FDiv(weighted_sum, weight_total) ELSE RZero

\* variant: one of the two thresholds is enough
AssessRelevanceEitherThreshold(documents, scores, relevance_threshold, min_confidence) ==
    IF documents = <<>> \/ scores = <<>>
    THEN [is_relevant |-> FALSE,
          confidence |-> RZero,
          reason |-> "No documents retrieved",
          top_score |-> RZero,
          avg_score |-> RZero]
    ELSE LET top_score == RMax(scores)
             overall_score == calculate_relevance_score(scores)
         IN  [is_relevant |-> \/ RGeq(top_score, relevance_threshold)
                              \/ RGeq(overall_score, min_confidence),
              confidence |-> overall_score,
              reason |-> "High relevance detected",
              top_score |-> top_score,
              avg_score |-> FDiv(FSum(scores), <<Len(scores), 1>>),
              num_documents |-> Len(documents)]

assess_relevance(documents, scores, relevance_threshold, min_confidence) ==
    IF documents = <<>> \/ scores = <<>>
    THEN [is_relevant |-> FALSE,
          confidence |-> RZero,
          reason |-> "No documents retrieved",
          top_score |-> RZero,
          avg_score |-> RZero]
    ELSE LET top_score == RMax(scores)
             avg_score == FDiv(FSum(scores), <<Len(scores), 1>>)
             overall_score == calculate_relevance_score(scores)
             is_relevant == /\ RGeq(top_score, relevance_threshold)
                            /\ RGeq(overall_score, min_confidence)
             reason == IF is_relevant THEN "High relevance detected"
                       ELSE IF RLt(top_score, relevance_threshold)
                            THEN "Top similarity below threshold"
                            ELSE "Overall confidence below minimum"
         IN  [is_relevant |-> is_relevant,
              confidence |-> overall_score,
              reason |-> reason,
              top_score |-> top_score,
              avg_score |-> avg_score,
              num_documents |-> Len(documents)]

retrieve_and_assess(results) ==
    LET r == retrieve(results)
    IN  [documents |-> r.documents,
         assessment |-> assess_relevance(r.documents, r.scores,
                                         RELEVANCE_THRESHOLD, MIN_CONFIDENCE_SCORE)]

\* format_context: one "[Document i - Page p]" header and the content per
\* passage, in rank order
format_context(documents) ==
    [i \in 1..Len(documents) |->
        [n |-> i, page |-> documents[i].page, content |-> documents[i].content]]

\* first 200 characters of the content followed by "..."
Preview(content) == <<content, "...">>

\* get_source_metadata: one entry per page, the first passage of a page wins
RECURSIVE SourceMetadataFrom(_, _, _)
SourceMetadataFrom(documents, seen_pages, sources) ==
    IF documents = <<>> THEN sources
    ELSE LET doc == documents[1]
         IN  IF doc.page # 0 /\ doc.page \notin seen_pages
             THEN SourceMetadataFrom(Tail(documents), seen_pages \cup {doc.page},
                      Append(sources, [page |-> doc.page,
                                       source |-> doc.source,
                                       preview |-> Preview(doc.content)]))
             ELSE SourceMetadataFrom(Tail(documents), seen_pages, sources)

\* variant: every passage gets an entry, seen page or not
SourceMetadataOfEveryPassage(documents) ==
    [i \in 1..Len(documents) |->
        [page |-> documents[i].page,
         source |-> documents[i].source,
         preview |-> Preview(documents[i].content)]]

get_source_metadata(documents) == SourceMetadataFrom(documents, {}, <<>>)


(***************************************************************************)
(* Answer texts (sequences of words) and the insufficiency classifier.     *)
(***************************************************************************)
\* str.lower / re.IGNORECASE on the words that occur capitalised
LowerWord(w) ==
    CASE w = "I" -> "i"
      [] w = "The" -> "the"
      [] w = "Unfortunately" -> "unfortunately"
      [] w = "Paris" -> "paris"
      [] w = "France" -> "france"
      [] w = "Page" -> "page"
      [] w = "CANNOT" -> "cannot"
      [] w = "Answer" -> "answer"
      [] OTHER -> w

\* the word sequence w occurs in text at position i, ignoring case
WordsAt(text, i, w) ==
    /\ i >= 1
    /\ i + Len(w) - 1 <= Len(text)
    /\ \A k \in 1..Len(w) : LowerWord(text[i + k - 1]) = w[k]

\* "." does not match a line break: no "\n" among positions a..b of text
NoNewline(text, a, b) == \A k \in a..b : text[k] # "\n"

\* re.search of  head.*tail  (tail = <<>> for a pattern without ".*") with
\* the (?i) flag: head somewhere, tail anywhere later on the same line
SearchPattern(head, tail, text) ==
    \E i \in 1..Len(text) :
        /\ WordsAt(text, i, head)
        /\ \/ tail = <<>>
           \/ \E j \in (i + Len(head))..Len(text) :
                 /\ WordsAt(text, j, tail)
                 /\ NoNewline(text, i, j + Len(tail) - 1)

\* insufficient_patterns, in source order; don'?t gives two heads
insufficient_patterns ==
    << [head |-> <<"don't", "have">>, tail |-> <<"information">>],
       [head |-> <<"dont", "have">>, tail |-> <<"information">>],
       [head |-> <<"does", "not", "contain">>, tail |-> <<"information">>],
       [head |-> <<"not", "mentioned", "in">>, tail |-> <<"context">>],
       [head |-> <<"context", "does", "not">>, tail |-> <<"enough">>],
       [head |-> <<"unable", "to", "provide">>, tail |-> <<>>],
       [head |-> <<"cannot", "answer">>, tail |-> <<>>],
       [head |-> <<"no", "information", "about">>, tail |-> <<>>],
       [head |-> <<"not", "included", "in">>, tail |-> <<"context">>],
       [head |-> <<"unfortunately">>, tail |-> <<"context">>] >>

\* variant: only the first pattern is tried
FirstPatternOnly(answer) ==
    SearchPattern(insufficient_patterns[1].head, insufficient_patterns[1].tail, answer)

_answer_indicates_insufficient_info(answer) ==
    \E p \in 1..Len(insufficient_patterns) :
        SearchPattern(insufficient_patterns[p].head, insufficient_patterns[p].tail, answer)

\* texts the language model may return for an answer prompt
LLMAnswers ==
    { <<"The", "capital", "is", "Paris">>,
      <<"I", "don't", "have", "enough", "information">>,
      <<"The", "context", "does", "not", "contain", "the", "information">>,
      <<"Unfortunately", ",", "the", "context", "is", "silent">>,
      <<"I", "don't", "have", "\n", "information">> }

\* fixed answer strings of the program
RagApology ==
    <<"I", "apologize", ",", "but", "I", "encountered", "an", "error",
      "generating", "the", "answer", ".">>
WebApology ==
    <<"I", "apologize", ",", "but", "I", "encountered", "an", "error",
      "generating", "the", "answer", "from", "web", "sources", ".">>
NoInformationAnswer ==
    <<"I", "apologize", ",", "but", "I", "couldn't", "find", "sufficient",
      "information", "in", "either", "the", "knowledge", "base", "or", "the",
      "web", "to", "answer", "your", "question", ".">>
RunErrorAnswer ==
    <<"An", "error", "occurred", "while", "processing", "your", "question", ".">>
FallbackNotice ==
    <<"The", "information", "was", "not", "found", "in", "the", "knowledge",
      "base", ".", "Searching", "the", "web", "for", "an", "answer", "...">>


(***************************************************************************)
(* Questions and search queries (sequences of characters).                 *)
(***************************************************************************)
LowerLetters ==
    { "a", "b", "c", "d", "e", "f", "g", "h", "i", "j", "k", "l", "m",
      "n", "o", "p", "q", "r", "s", "t", "u", "v", "w", "x", "y", "z" }
UpperLetters == { "W", "X" }
Digits == { "0", "1" }
Whitespace == { " ", "\n", "\t" }
QuoteChars == { "\"", "'" }

LowerChar(c) == CASE c = "W" -> "w" [] c = "X" -> "x" [] OTHER -> c
lower(s) == [i \in 1..Len(s) |-> LowerChar(s[i])]

RECURSIVE LStrip(_, _)
LStrip(s, chars) ==
    IF s # <<>> /\ s[1] \in chars THEN LStrip(Tail(s), chars) ELSE s

RECURSIVE RStrip(_, _)
RStrip(s, chars) ==
    IF s # <<>> /\ s[Len(s)] \in chars
    THEN RStrip(SubSeq(s, 1, Len(s) - 1), chars)
    ELSE s

\* str.strip() and str.strip(chars)
strip(s) == RStrip(LStrip(s, Whitespace), Whitespace)
stripChars(s, chars) == RStrip(LStrip(s, chars), chars)

\* str.isalnum: non-empty and every character a letter or a digit
isalnum(s) ==
    /\ s # <<>>
    /\ \A i \in 1..Len(s) : s[i] \in LowerLetters \cup UpperLetters \cup Digits

\* s.replace(' ', '')
RemoveSpaces(s) == SelectSeq(s, LAMBDA c : c # " ")

StartsWith(s, prefix) ==
    /\ Len(prefix) <= Len(s)
    /\ SubSeq(s, 1, Len(prefix)) = prefix

\* the alternatives of ^(what|how|when|where|why|who|which|can you|please)\s+
QuestionWords ==
    << <<"w", "h", "a", "t">>, <<"h", "o", "w">>, <<"w", "h", "e", "n">>,
       <<"w", "h", "e", "r", "e">>, <<"w", "h", "y">>, <<"w", "h", "o">>,
       <<"w", "h", "i", "c", "h">>, <<"c", "a", "n", " ", "y", "o", "u">>,
       <<"p", "l", "e", "a", "s", "e">> >>

\* re.sub of the leading question word followed by at least one whitespace
StripQuestionWord(s) ==
    LET matching == { k \in 1..Len(QuestionWords) :
                        /\ StartsWith(s, QuestionWords[k])
                        /\ Len(s) > Len(QuestionWords[k])
                        /\ s[Len(QuestionWords[k]) + 1] \in Whitespace }
    IN  IF matching = {} THEN s
        ELSE LET k == CHOOSE m \in matching : \A o \in matching : m <= o
             IN  LStrip(SubSeq(s, Len(QuestionWords[k]) + 1, Len(s)), Whitespace)

\* re.sub(r'\?$', '', s): "$" is the end of the string or the position
\* before a final line break
StripQuestionMark(s) ==
    IF s # <<>> /\ s[Len(s)] = "?"
    THEN SubSeq(s, 1, Len(s) - 1)
    ELSE IF Len(s) >= 2 /\ s[Len(s)] = "\n" /\ s[Len(s) - 1] = "?"
         THEN SubSeq(s, 1, Len(s) - 2) \o <<"\n">>
         ELSE s

_simple_reformulation(question) ==
    strip(StripQuestionMark(StripQuestionWord(lower(question))))

\* questions put to the system
Questions ==
    { <<"w", "h", "o", " ", "i", "s", " ", "x", "?">>,
      <<"X", "y">>,
      <<"W", "h", "y", " ", "?">> }

\* texts the language model may return for the reformulation prompt
LLMQueries ==
    { <<"x", " ", "y">>,
      <<" ", "\"", "x", "y", "z", "\"">>,
      <<"x", "?">>,
      <<"x", "-", "y", "z">> }

(***************************************************************************)
(* Language model collaborator: one invoke either raises or returns text.  *)
(***************************************************************************)
LLMOutcomes(texts) ==
    { [raised |-> TRUE, content |-> <<>>] }
        \cup { [raised |-> FALSE, content |-> t] : t \in texts }

(***************************************************************************)
(* helpers.format_citations and AnswerGenerator                            *)
(***************************************************************************)
NoSourcesAvailable == << [kind |-> "No sources available."] >>

format_citations(sources, source_type) ==
    IF sources = <<>>
    THEN NoSourcesAvailable
    ELSE IF source_type = "pdf"
         THEN [i \in 1..Len(sources) |->
                  [kind |-> "pdf", n |-> i, page |-> sources[i].page]]
         ELSE [i \in 1..Len(sources) |->
                  [kind |-> "web", n |-> i, title |-> sources[i].title,
                   url |-> sources[i].url]]

\* variant: the apology of a failed generation is labelled "none"
AG_generate_rag_answer_NoneOnError(llm, sources) ==
    IF llm.raised
    THEN [answer |-> RagApology,
          source_type |-> "none",
          sources |-> <<>>,
          citations |-> <<>>,
          success |-> FALSE]
    ELSE [answer |-> llm.content,
          source_type |-> "knowledge_base",
          sources |-> sources,
          citations |-> format_citations(sources, "pdf"),
          success |-> TRUE]

\* AnswerGenerator.generate_rag_answer, llm being the outcome of llm.invoke
AG_generate_rag_answer(llm, sources) ==
    IF llm.raised
    THEN [answer |-> RagApology,
          source_type |-> "knowledge_base",
          sources |-> <<>>,
          citations |-> <<>>,
          success |-> FALSE]
    ELSE [answer |-> llm.content,
          source_type |-> "knowledge_base",
          sources |-> sources,
          citations |-> format_citations(sources, "pdf"),
          success |-> TRUE]

\* web_results[:5]
FirstFive(seq) == SubSeq(seq, 1, IF Len(seq) < 5 THEN Len(seq) ELSE 5)

\* variant: the apology of a failed web generation is labelled "none"
AG_generate_web_answer_NoneOnError(llm, web_results) ==
    IF llm.raised
    THEN [answer |-> WebApology,
          source_type |-> "none",
          sources |-> <<>>,
          citations |-> <<>>,
          success |-> FALSE]
    ELSE LET top == FirstFive(web_results)
             sources == [i \in 1..Len(top) |->
                            [url |-> top[i].url, title |-> top[i].title]]
         IN  [answer |-> llm.content,
              source_type |-> "web",
              sources |-> sources,
              citations |-> format_citations(sources, "web"),
              success |-> TRUE]

\* AnswerGenerator.generate_web_answer
AG_generate_web_answer(llm, web_results) ==
    IF llm.raised
    THEN [answer |-> WebApology,
          source_type |-> "web",
          sources |-> <<>>,
          citations |-> <<>>,
          success |-> FALSE]
    ELSE LET top == FirstFive(web_results)
             sources == [i \in 1..Len(top) |->
                            [url |-> top[i].url, title |-> top[i].title]]
         IN  [answer |-> llm.content,
              source_type |-> "web",
              sources |-> sources,
              citations |-> format_citations(sources, "web"),
              success |-> TRUE]

\* variant: the length of the model's text is not checked
ReformulateWithoutLengthCheck(llm, question) ==
    IF llm.raised
    THEN _simple_reformulation(question)
    ELSE LET reformulated == stripChars(strip(llm.content), QuoteChars)
         IN  IF ~isalnum(RemoveSpaces(reformulated))
             THEN _simple_reformulation(question)
             ELSE reformulated

\* AnswerGenerator.reformulate_query_for_web
reformulate_query_for_web(llm, question) ==
    IF llm.raised
    THEN _simple_reformulation(question)
    ELSE LET reformulated == stripChars(strip(llm.content), QuoteChars)
         IN  IF Len(reformulated) < 3 \/ ~isalnum(RemoveSpaces(reformulated))
             THEN _simple_reformulation(question)
             ELSE reformulated

(***************************************************************************)
(* Web search collaborator: what search_and_extract returns.               *)
(***************************************************************************)
WebResult(i) == [title |-> i, url |-> i, snippet |-> i, content |-> i]

\* it raises, or returns the first n results, n at most MaxWeb (which
\* stands for max_results = MAX_SEARCH_RESULTS)
WebOutcomes ==
    { [raised |-> TRUE, results |-> <<>>] }
        \cup { [raised |-> FALSE, results |-> [i \in 1..n |-> WebResult(i)]]
               : n \in 0..(IF MaxWeb < MAX_SEARCH_RESULTS THEN MaxWeb
                            ELSE MAX_SEARCH_RESULTS) }


(***************************************************************************)
(* State.                                                                  *)
(***************************************************************************)
VARIABLES
    pc,             \* next graph node, or "END" / "respond" / "returned"
    state,          \* the GraphState held by the graph's channels
    metadata,       \* the dict created by create_initial_state: initial_state
                    \* and the graph's state both refer to this one object,
                    \* and the nodes write into it in place
    initial_state,  \* QAWorkflow.run's local initial_state
    final_state,    \* what QAWorkflow.run returned (None while running)
    response,       \* what QASystem.ask returned (None while running)
    trace,          \* history: the nodes executed so far, in order
    llm_calls,      \* history: the prompts the language model was invoked for
    writer,         \* history: the node that last wrote each answer field
    kb_answer,      \* history: the answer text GenerateKBAnswer obtained
    env,            \* history: what each collaborator call of this run
                    \* returned or raised (None: not called)
    first,          \* history: the record of an earlier run of the same
                    \* workflow that a second run is compared with
    call,           \* a direct call of one of the pure functions: its
                    \* arguments and its result (None: no call made)
    other,          \* the run of a second thread that is in QAWorkflow.run
                    \* on the same workflow object and is not scheduled now:
                    \* the state it owns (None: no second thread)
    system          \* the QASystem object: the attributes that are not None,
                    \* and (history) how each call of setup ended

vars == <<pc, state, metadata, initial_state, final_state, response,
          trace, llm_calls, writer, kb_answer, env, first, call, other,
          system>>

\* the variables of one run of QASystem.ask
run_vars == <<pc, state, metadata, initial_state, final_state, response,
              trace, llm_calls, writer, kb_answer, env>>

NoOutcomes ==
    [index |-> None, llm_rag |-> None, llm_query |-> None, web |-> None,
     llm_web |-> None]

NodeNames ==
    { "retrieve_kb", "generate_rag_answer", "notify_fallback", "search_web",
      "generate_web_answer", "format_output" }

\* state.create_initial_state, without the metadata dict (see metadata)
create_initial_state(question) ==
    [question |-> question,
     reformulated_query |-> None,
     retrieved_documents |-> <<>>,
     retrieval_scores |-> <<>>,
     relevance_assessment |-> EmptyDict,
     is_knowledge_base_sufficient |-> FALSE,
     needs_web_fallback |-> FALSE,
     rag_context |-> None,
     rag_sources |-> <<>>,
     web_search_query |-> None,
     web_results |-> <<>>,
     web_sources |-> <<>>,
     answer |-> <<>>,
     source_type |-> "",
     citations |-> <<>>,
     error |-> None]

\* GraphState declares retrieved_documents as Annotated[List, add]: the graph
\* stores old + returned for that key and the returned value for every other
ApplyWrites(channels, returned) ==
    [returned EXCEPT
        !.retrieved_documents = channels.retrieved_documents \o returned.retrieved_documents]

\* the attributes QASystem.setup assigns, in the order of its steps
SetupSteps ==
    <<"llm", "embeddings", "vector_store", "retriever", "answer_generator",
      "web_searcher", "workflow">>

\* QASystem.__init__: every attribute is None
NewSystem == [attrs |-> {}, setups |-> <<>>]

\* a system on which setup has returned True
ReadySystem ==
    [attrs |-> { SetupSteps[i] : i \in 1..Len(SetupSteps) }, setups |-> <<"ok">>]

\* QAWorkflow.run up to graph.invoke: the initial state is created and
\* written to the channels, the entry point is retrieve_kb
Init ==
    \E question \in Questions :
        /\ initial_state = create_initial_state(question)
        /\ state = ApplyWrites(create_initial_state(question),
                               create_initial_state(question))
        /\ metadata = EmptyDict
        /\ pc = "retrieve_kb"
        /\ final_state = None
        /\ response = None
        /\ trace = <<>>
        /\ llm_calls = <<>>
        /\ writer = [answer |-> "", source_type |-> "", citations |-> ""]
        /\ kb_answer = None
        /\ env = NoOutcomes
        /\ first = None
        /\ call = None
        /\ other = None
        /\ system = ReadySystem

(***************************************************************************)
(* Routing functions and the conditional edges of _build_graph.            *)
(***************************************************************************)
\* variant: routes on whether passages came back, not on the verdict
RouteOnDocumentsPresent(st) ==
    IF st.retrieved_documents # <<>> THEN "generate_rag" ELSE "fallback_to_web"

_route_after_retrieval(st) ==
    IF st.is_knowledge_base_sufficient THEN "generate_rag" ELSE "fallback_to_web"

\* variant: the apology of a failed generation also routes to the fallback
RouteFallbackOnApology(st) ==
    IF st.needs_web_fallback \/ st.answer = RagApology
    THEN "fallback_to_web" ELSE "use_rag"

_route_after_rag_answer(st) ==
    IF st.needs_web_fallback THEN "fallback_to_web" ELSE "use_rag"

\* variant: the two targets of the dispatch table exchanged
EdgeAfterRetrievalSwapped(st) ==
    IF _route_after_retrieval(st) = "generate_rag"
    THEN "notify_fallback" ELSE "generate_rag_answer"

EdgeAfterRetrieval(st) ==
    IF _route_after_retrieval(st) = "generate_rag"
    THEN "generate_rag_answer" ELSE "notify_fallback"

\* variant: the route key is taken for the node name
EdgeAfterRagAnswerUnmapped(st) == _route_after_rag_answer(st)

\* variant: the fallback edge leads to the search, past the notice
EdgeAfterRagAnswerPastNotice(st) ==
    IF _route_after_rag_answer(st) = "use_rag"
    THEN "format_output" ELSE "search_web"

EdgeAfterRagAnswer(st) ==
    IF _route_after_rag_answer(st) = "use_rag"
    THEN "format_output" ELSE "notify_fallback"

(***************************************************************************)
(* Node functions: the state a node returns.                               *)
(***************************************************************************)
\* retrieve_and_assess tabulated over the result lists of the index, so that
\* it is computed once per list
RetrievedAndAssessed ==
    [results \in IndexResults |-> retrieve_and_assess(results)]

\* variant: an insufficient verdict also requests the fallback
RetrieveFromKbMarksFallback(st, index) ==
    IF index.raised
    THEN [st EXCEPT !.error = Some("index error"),
                    !.is_knowledge_base_sufficient = FALSE,
                    !.needs_web_fallback = TRUE]
    ELSE LET ra == RetrievedAndAssessed[index.results]
         IN  [st EXCEPT
                !.retrieved_documents = ra.documents,
                !.retrieval_scores = <<ra.assessment.top_score>>,
                !.relevance_assessment = ra.assessment,
                !.is_knowledge_base_sufficient = ra.assessment.is_relevant,
                !.needs_web_fallback = ~ra.assessment.is_relevant,
                !.rag_context = IF ra.documents # <<>>
                                THEN Some(format_context(ra.documents)) ELSE @,
                !.rag_sources = IF ra.documents # <<>>
                                THEN get_source_metadata(ra.documents) ELSE @]

\* variant: the passages are not formatted into rag_context
RetrieveFromKbWithoutContext(st, index) ==
    IF index.raised
    THEN [st EXCEPT !.error = Some("index error"),
                    !.is_knowledge_base_sufficient = FALSE]
    ELSE LET ra == RetrievedAndAssessed[index.results]
         IN  [st EXCEPT
                !.retrieved_documents = ra.documents,
                !.retrieval_scores = <<ra.assessment.top_score>>,
                !.relevance_assessment = ra.assessment,
                !.is_knowledge_base_sufficient = ra.assessment.is_relevant,
                !.rag_sources = IF ra.documents # <<>>
                                THEN get_source_metadata(ra.documents) ELSE @]

\* index = [raised, results]: the outcome of similarity_search_with_score
retrieve_from_kb(st, index) ==
    IF index.raised
    THEN [st EXCEPT !.error = Some("index error"),
                    !.is_knowledge_base_sufficient = FALSE]
    ELSE LET ra == RetrievedAndAssessed[index.results]
         IN  [st EXCEPT
                !.retrieved_documents = ra.documents,
                !.retrieval_scores = <<ra.assessment.top_score>>,
                !.relevance_assessment = ra.assessment,
                !.is_knowledge_base_sufficient = ra.assessment.is_relevant,
                !.rag_context = IF ra.documents # <<>>
                                THEN Some(format_context(ra.documents)) ELSE @,
                !.rag_sources = IF ra.documents # <<>>
                                THEN get_source_metadata(ra.documents) ELSE @]

\* variant: the classifier's verdict clears the flag but requests no fallback
GenerateRagAnswerNoFallbackFlag(st, llm) ==
    LET result == AG_generate_rag_answer(llm, st.rag_sources)
        insufficient == _answer_indicates_insufficient_info(result.answer)
    IN  [st EXCEPT
            !.answer = result.answer,
            !.source_type = result.source_type,
            !.citations = result.citations,
            !.is_knowledge_base_sufficient = IF insufficient THEN FALSE ELSE @]

\* the generator catches every failure of the model itself, so the node's
\* own except branch is not taken
generate_rag_answer(st, llm) ==
    LET result == AG_generate_rag_answer(llm, st.rag_sources)
        insufficient == _answer_indicates_insufficient_info(result.answer)
    IN  [st EXCEPT
            !.answer = result.answer,
            !.source_type = result.source_type,
            !.citations = result.citations,
            !.is_knowledge_base_sufficient = IF insufficient THEN FALSE ELSE @,
            !.needs_web_fallback = IF insufficient THEN TRUE ELSE @]

\* variant: the notice is stored under another key
NotifyWrongKey(md) == Put(md, "notification", FallbackNotice)

\* notify_user_fallback changes the metadata dict only
notify_user_fallback(st) == st

notify_user_fallback_metadata(md) ==
    Put(md, "fallback_notification", FallbackNotice)

\* reformulate_query_for_web tabulated over the model's questions and model
\* outcomes, so that it is computed once per (outcome, question)
ReformulatedQuery ==
    [llm \in LLMOutcomes(LLMQueries) |->
        [question \in Questions |-> reformulate_query_for_web(llm, question)]]

search_web(st, llm, web) ==
    LET reformulated == ReformulatedQuery[llm][st.question]
    IN  IF web.raised
        THEN [st EXCEPT !.web_search_query = Some(reformulated),
                        !.error = Some("search error"),
                        !.web_results = <<>>]
        ELSE [st EXCEPT !.web_search_query = Some(reformulated),
                        !.web_results = web.results]

\* variant: the answer without results is still labelled a web answer
GenerateWebAnswerWebOnEmpty(st, llm) ==
    IF st.web_results = <<>>
    THEN [st EXCEPT !.answer = NoInformationAnswer,
                    !.source_type = "web"]
    ELSE LET result == AG_generate_web_answer(llm, st.web_results)
         IN  [st EXCEPT !.answer = result.answer,
                        !.source_type = result.source_type,
                        !.citations = result.citations,
                        !.web_sources = result.sources]

\* only called with llm when web_results is non-empty
generate_web_answer(st, llm) ==
    IF st.web_results = <<>>
    THEN [st EXCEPT !.answer = NoInformationAnswer,
                    !.source_type = "none"]
    ELSE LET result == AG_generate_web_answer(llm, st.web_results)
         IN  [st EXCEPT !.answer = result.answer,
                        !.source_type = result.source_type,
                        !.citations = result.citations,
                        !.web_sources = result.sources]

format_final_output(st) == st

\* variant: a missing confidence is reported as 1
FormatOutputDefaultConfidenceOne(st, md) ==
    Put(Put(md, "confidence", Get(st.relevance_assessment, "confidence", ROne)),
        "num_sources",
        Len(IF st.rag_sources # <<>> THEN st.rag_sources ELSE st.web_sources))

format_final_output_metadata(st, md) ==
    Put(Put(md, "confidence", Get(st.relevance_assessment, "confidence", RZero)),
        "num_sources",
        Len(IF st.rag_sources # <<>> THEN st.rag_sources ELSE st.web_sources))


(***************************************************************************)
(* Actions: one per graph node (the node, the graph's write of what it     *)
(* returns, and the edge out of it), then QAWorkflow.run's two exits and   *)
(* QASystem.ask's response.                                                *)
(***************************************************************************)
IndexOutcomes ==
    { [raised |-> TRUE, results |-> <<>>] }
        \cup { [raised |-> FALSE, results |-> r] : r \in IndexResults }

\* In a second run that is compared with a first one (first # None) a
\* collaborator answers as the comparison supposes: as it did in the first
\* run, if it was called there.
Supposed(earlier, outcomes) == IF earlier = None THEN outcomes ELSE {earlier[1]}

\* With two threads in run (other # None) the collaborators answer from
\* these smaller sets: the index raises or returns one passage, at
\* distance 0 or at distance 9; the model raises or returns an answer that
\* the classifier accepts or one it rejects, or the one query; the web
\* search raises or returns one result.
TwoRunIndexOutcomes ==
    { [raised |-> TRUE, results |-> <<>>] }
        \cup { [raised |-> FALSE,
                results |-> << [doc |-> [page |-> 1, source |-> "kb.pdf",
                                         content |-> "alpha"],
                                distance |-> d] >>]
               : d \in { <<0, 1>>, <<9, 1>> } }
TwoRunAnswers ==
    { <<"The", "capital", "is", "Paris">>,
      <<"I", "don't", "have", "enough", "information">> }
TwoRunQueries == { <<"x", " ", "y">> }
TwoRunWebOutcomes ==
    { o \in WebOutcomes : o.raised \/ Len(o.results) = 1 }

IndexChoices ==
    IF other # None THEN TwoRunIndexOutcomes
    ELSE IF first = None THEN IndexOutcomes
    ELSE IF first[1].mode = "index_raises"
         THEN { [raised |-> TRUE, results |-> <<>>] }
         ELSE Supposed(first[1].env.index, IndexOutcomes)

WebChoices ==
    IF other # None THEN TwoRunWebOutcomes
    ELSE IF first = None THEN WebOutcomes
    ELSE Supposed(first[1].env.web, WebOutcomes)

LLMChoices(prompt, texts) ==
    IF other # None
    THEN LLMOutcomes(IF prompt = "llm_query" THEN TwoRunQueries ELSE TwoRunAnswers)
    ELSE IF first # None /\ first[1].mode = "index_raises"
    THEN Supposed(first[1].env[prompt], LLMOutcomes(texts))
    ELSE LLMOutcomes(texts)

Wrote(fields, node) ==
    [f \in DOMAIN writer |-> IF f \in fields THEN node ELSE writer[f]]

RetrieveKB ==
    /\ pc = "retrieve_kb"
    /\ \E index \in IndexChoices :
          /\ state' = ApplyWrites(state, retrieve_from_kb(state, index))
          /\ env' = [env EXCEPT !.index = Some(index)]
    /\ pc' = EdgeAfterRetrieval(state')
    /\ trace' = Append(trace, "retrieve_kb")
    /\ UNCHANGED <<metadata, initial_state, final_state, response, llm_calls,
                   writer, kb_answer, first, call, other, system>>

GenerateRagAnswer ==
    /\ pc = "generate_rag_answer"
    /\ \E llm \in LLMChoices("llm_rag", LLMAnswers) :
          /\ state' = ApplyWrites(state, generate_rag_answer(state, llm))
          /\ env' = [env EXCEPT !.llm_rag = Some(llm)]
    /\ pc' = EdgeAfterRagAnswer(state')
    /\ trace' = Append(trace, "generate_rag_answer")
    /\ llm_calls' = Append(llm_calls, "rag_answer")
    /\ writer' = Wrote({"answer", "source_type", "citations"}, "generate_rag_answer")
    /\ kb_answer' = Some(state'.answer)
    /\ UNCHANGED <<metadata, initial_state, final_state, response, first, call, other, system>>

NotifyFallback ==
    /\ pc = "notify_fallback"
    /\ state' = ApplyWrites(state, notify_user_fallback(state))
    /\ metadata' = notify_user_fallback_metadata(metadata)
    /\ pc' = "search_web"
    /\ trace' = Append(trace, "notify_fallback")
    /\ UNCHANGED <<initial_state, final_state, response, llm_calls, writer,
                   kb_answer, env, first, call, other, system>>

SearchWeb ==
    /\ pc = "search_web"
    /\ \E llm \in LLMChoices("llm_query", LLMQueries), web \in WebChoices :
          /\ state' = ApplyWrites(state, search_web(state, llm, web))
          /\ env' = [env EXCEPT !.llm_query = Some(llm), !.web = Some(web)]
    /\ pc' = "generate_web_answer"
    /\ trace' = Append(trace, "search_web")
    /\ llm_calls' = Append(llm_calls, "reformulation")
    /\ UNCHANGED <<metadata, initial_state, final_state, response, writer,
                   kb_answer, first, call, other, system>>

GenerateWebAnswer ==
    /\ pc = "generate_web_answer"
    /\ IF state.web_results = <<>>
       THEN /\ state' = ApplyWrites(state, generate_web_answer(state, None))
            /\ env' = env
            /\ llm_calls' = llm_calls
            /\ writer' = Wrote({"answer", "source_type"}, "generate_web_answer")
       ELSE /\ \E llm \in LLMChoices("llm_web", LLMAnswers) :
                  /\ state' = ApplyWrites(state, generate_web_answer(state, llm))
                  /\ env' = [env EXCEPT !.llm_web = Some(llm)]
            /\ llm_calls' = Append(llm_calls, "web_answer")
            /\ writer' = Wrote({"answer", "source_type", "citations"},
                               "generate_web_answer")
    /\ pc' = "format_output"
    /\ trace' = Append(trace, "generate_web_answer")
    /\ UNCHANGED <<metadata, initial_state, final_state, response, kb_answer,
                   first, call, other, system>>

FormatOutput ==
    /\ pc = "format_output"
    /\ state' = ApplyWrites(state, format_final_output(state))
    /\ metadata' = format_final_output_metadata(state, metadata)
    /\ pc' = "END"
    /\ trace' = Append(trace, "format_output")
    /\ UNCHANGED <<initial_state, final_state, response, llm_calls, writer,
                   kb_answer, env, first, call, other, system>>

\* graph.invoke returned: run returns the final state
RunCompleted ==
    /\ pc = "END"
    /\ final_state' = Some(state)
    /\ pc' = "respond"
    /\ UNCHANGED <<state, metadata, initial_state, response, trace, llm_calls,
                   writer, kb_answer, env, first, call, other, system>>

\* graph.invoke raised: run's except branch returns the initial state with
\* error and answer set; its metadata is the dict the nodes have written to
RunFailed ==
    /\ pc \in NodeNames
    /\ initial_state' = [initial_state EXCEPT !.error = Some("graph error"),
                                              !.answer = RunErrorAnswer]
    /\ final_state' = Some(initial_state')
    /\ pc' = "respond"
    /\ UNCHANGED <<state, metadata, response, trace, llm_calls, writer,
                   kb_answer, env, first, call, other, system>>

\* variant: the response leaves the citations out
AskResponseWithoutCitations(result, md) ==
    LET base == [question |-> result.question,
                 answer |-> result.answer,
                 source_type |-> result.source_type,
                 metadata |-> md]
    IN  IF "fallback_notification" \in DOMAIN md
        THEN Put(base, "fallback_notification", md["fallback_notification"])
        ELSE base

\* QASystem.ask: the response built from what run returned
ask_response(result, md) ==
    LET base == [question |-> result.question,
                 answer |-> result.answer,
                 source_type |-> result.source_type,
                 citations |-> result.citations,
                 metadata |-> md]
    IN  IF "fallback_notification" \in DOMAIN md
        THEN Put(base, "fallback_notification", md["fallback_notification"])
        ELSE base

AskRespond ==
    /\ pc = "respond"
    /\ response' = Some(ask_response(final_state[1], metadata))
    /\ pc' = "returned"
    /\ UNCHANGED <<state, metadata, initial_state, final_state, trace, llm_calls,
                   writer, kb_answer, env, first, call, other, system>>

Next ==
    \/ RetrieveKB
    \/ GenerateRagAnswer
    \/ NotifyFallback
    \/ SearchWeb
    \/ GenerateWebAnswer
    \/ FormatOutput
    \/ RunCompleted
    \/ RunFailed
    \/ AskRespond

Spec == Init /\ [][Next]_vars

\* run is one synchronous sequence of blocking calls, each of which returns
\* or raises: the thread keeps taking steps until ask has returned
FairSpec == Spec /\ WF_vars(Next)


(***************************************************************************)
(* Properties.                                                             *)
(***************************************************************************)
Range(seq) == { seq[i] : i \in 1..Len(seq) }

\* the nodes that ran, or are about to run, immediately after node
NextAfter(node) ==
    { trace[i + 1] : i \in { j \in 1..(Len(trace) - 1) : trace[j] = node } }
        \cup (IF trace # <<>> /\ trace[Len(trace)] = node /\ pc \in NodeNames
              THEN {pc} ELSE {})

\* graph.invoke ran to END
Completed == "format_output" \in Range(trace)

\* the verdict of the assessment RetrieveKB stored (none stored: not sufficient)
AssessedSufficient == Get(state.relevance_assessment, "is_relevant", FALSE)

KbAnswerInsufficient ==
    kb_answer # None /\ _answer_indicates_insufficient_info(kb_answer[1])

KbAnswerAccepted ==
    kb_answer # None /\ ~_answer_indicates_insufficient_info(kb_answer[1])

FallbackNodes == { "notify_fallback", "search_web", "generate_web_answer" }

\* the classifier's verdict on the KB answer of a run ("none": no KB answer)
Verdict(kb) ==
    IF kb = None THEN "none"
    ELSE IF _answer_indicates_insufficient_info(kb[1]) THEN "insufficient"
         ELSE "accepted"

(***************************************************************************)
(* A second run of QASystem.ask on the same system and question, to be     *)
(* compared with the first.  Each ask builds a fresh initial state.        *)
(***************************************************************************)
\* the zero-passage outcome of the index
IndexReturnsNothing == [raised |-> FALSE, results |-> <<>>]

\* QAWorkflow.run entered again for question
StartRun(question) ==
    /\ initial_state' = create_initial_state(question)
    /\ state' = ApplyWrites(create_initial_state(question),
                            create_initial_state(question))
    /\ metadata' = EmptyDict
    /\ pc' = "retrieve_kb"
    /\ final_state' = None
    /\ response' = None
    /\ trace' = <<>>
    /\ llm_calls' = <<>>
    /\ writer' = [answer |-> "", source_type |-> "", citations |-> ""]
    /\ kb_answer' = None
    /\ env' = NoOutcomes

\* the first run completed and ask is called again; the index and the web
\* search will answer as they did, the language model is free to differ
AskAgainSameInputs ==
    /\ pc = "returned"
    /\ first = None
    /\ Completed
    /\ first' = Some([mode |-> "same_inputs",
                      env |-> [env EXCEPT !.llm_rag = None, !.llm_query = None,
                                          !.llm_web = None],
                      trace |-> trace,
                      kb_answer |-> kb_answer,
                      source_type |-> response[1].source_type,
                      state |-> None,
                      response |-> None])
    /\ StartRun(initial_state.question)
    /\ UNCHANGED <<call, other, system>>

\* the first run, in which the index returned no passage, completed and ask
\* is called again; this time the index call will raise, the language model
\* and the web search will answer as they did
AskAgainIndexRaising ==
    /\ pc = "returned"
    /\ first = None
    /\ Completed
    /\ env.index = Some(IndexReturnsNothing)
    /\ first' = Some([mode |-> "index_raises",
                      env |-> env,
                      trace |-> trace,
                      kb_answer |-> kb_answer,
                      source_type |-> response[1].source_type,
                      state |-> Some(final_state[1]),
                      response |-> response])
    /\ StartRun(initial_state.question)
    /\ UNCHANGED <<call, other, system>>

\* the step just taken was QAWorkflow.run's except branch
GraphRaised == final_state' # None /\ final_state'[1].error = Some("graph error")

\* a step of a run; graph execution does not raise in a second run
RunStep == Next /\ (first # None => ~GraphRaised)

PairNext ==
    \/ RunStep
    \/ AskAgainSameInputs
    \/ AskAgainIndexRaising

PairSpec == Init /\ [][PairNext]_vars

(***************************************************************************)
(* Two threads in QAWorkflow.run on one workflow object.  The objects the  *)
(* threads share (the compiled graph, the nodes object and its retriever,  *)
(* answer generator and web searcher) assign their fields in __init__      *)
(* only; everything run creates (initial_state, the metadata dict, the     *)
(* state graph.invoke builds from it) belongs to the call.  The scheduler  *)
(* may pass control from one thread to the other between any two steps.    *)
(***************************************************************************)
\* what the scheduled thread's call of ask owns
OwnRun(id) ==
    [id |-> id, pc |-> pc, state |-> state, metadata |-> metadata,
     initial_state |-> initial_state, final_state |-> final_state,
     response |-> response, trace |-> trace, llm_calls |-> llm_calls,
     writer |-> writer, kb_answer |-> kb_answer, env |-> env]

\* a call of ask that has created its initial state and not run a node yet
NewRun(id, question) ==
    [id |-> id, pc |-> "retrieve_kb",
     state |-> ApplyWrites(create_initial_state(question),
                           create_initial_state(question)),
     metadata |-> EmptyDict,
     initial_state |-> create_initial_state(question),
     final_state |-> None, response |-> None, trace |-> <<>>,
     llm_calls |-> <<>>,
     writer |-> [answer |-> "", source_type |-> "", citations |-> ""],
     kb_answer |-> None, env |-> NoOutcomes]

\* variant: the metadata dict is one object that both calls write to
ResumeSharingMetadata(r) ==
    /\ pc' = r.pc
    /\ state' = r.state
    /\ metadata' = metadata
    /\ initial_state' = r.initial_state
    /\ final_state' = r.final_state
    /\ response' = r.response
    /\ trace' = r.trace
    /\ llm_calls' = r.llm_calls
    /\ writer' = r.writer
    /\ kb_answer' = r.kb_answer
    /\ env' = r.env

\* the thread that is scheduled goes on with what its own call holds
Resume(r) ==
    /\ pc' = r.pc
    /\ state' = r.state
    /\ metadata' = r.metadata
    /\ initial_state' = r.initial_state
    /\ final_state' = r.final_state
    /\ response' = r.response
    /\ trace' = r.trace
    /\ llm_calls' = r.llm_calls
    /\ writer' = r.writer
    /\ kb_answer' = r.kb_answer
    /\ env' = r.env

\* a second thread calls ask while the first is in run
AskConcurrently ==
    /\ other = None
    /\ first = None
    /\ call = None
    /\ pc = "retrieve_kb"
    /\ \E question \in Questions : other' = Some(NewRun(2, question))
    /\ UNCHANGED <<run_vars, first, call, system>>

\* the scheduler passes control to the other thread
Switch ==
    /\ other # None
    /\ other' = Some(OwnRun(3 - other[1].id))
    /\ Resume(other[1])
    /\ UNCHANGED <<first, call, system>>

TwoRunNext ==
    \/ AskConcurrently
    \/ other # None /\ Next
    \/ Switch

TwoRunSpec == Init /\ [][TwoRunNext]_vars

(***************************************************************************)
(* QASystem from its construction: setup, which may raise at any of its    *)
(* steps, and ask.                                                         *)
(***************************************************************************)
\* largest number of calls of setup
MaxSetups == 2

\* the object is constructed, setup and ask have not been called
SetupInit ==
    /\ system = NewSystem
    /\ pc = "idle"
    /\ state = None
    /\ initial_state = None
    /\ metadata = EmptyDict
    /\ final_state = None
    /\ response = None
    /\ trace = <<>>
    /\ llm_calls = <<>>
    /\ writer = [answer |-> "", source_type |-> "", citations |-> ""]
    /\ kb_answer = None
    /\ env = NoOutcomes
    /\ first = None
    /\ call = None
    /\ other = None

\* ask is not in progress
Resting == { "idle", "not_initialized", "returned" }

\* variant: the workflow is created in the first step of setup
SetupWorkflowFirst(sys, raises_at) ==
    IF raises_at = 0
    THEN [attrs |-> sys.attrs \cup { SetupSteps[i] : i \in 1..Len(SetupSteps) },
          setups |-> Append(sys.setups, "ok")]
    ELSE [attrs |-> sys.attrs \cup { "workflow" }
                        \cup { SetupSteps[i] : i \in 1..(raises_at - 1) },
          setups |-> Append(sys.setups, "raised")]

\* QASystem.setup: the steps run in order, each assigns its attribute; the
\* step raises_at raises (0: none does) and setup re-raises
setup(sys, raises_at) ==
    IF raises_at = 0
    THEN [attrs |-> sys.attrs \cup { SetupSteps[i] : i \in 1..Len(SetupSteps) },
          setups |-> Append(sys.setups, "ok")]
    ELSE [attrs |-> sys.attrs \cup { SetupSteps[i] : i \in 1..(raises_at - 1) },
          setups |-> Append(sys.setups, "raised")]

Setup ==
    /\ pc \in Resting
    /\ Len(system.setups) < MaxSetups
    /\ \E raises_at \in 0..Len(SetupSteps) : system' = setup(system, raises_at)
    /\ UNCHANGED <<run_vars, first, call, other>>

\* QASystem.ask: RuntimeError without a workflow, else workflow.run
Ask ==
    /\ pc \in Resting
    /\ IF "workflow" \notin system.attrs
       THEN /\ pc' = "not_initialized"
            /\ UNCHANGED <<state, metadata, initial_state, final_state, response,
                           trace, llm_calls, writer, kb_answer, env>>
       ELSE \E question \in Questions : StartRun(question)
    /\ UNCHANGED <<first, call, other, system>>

\* the collaborators answer from the smaller sets
FewOutcomes ==
    /\ env'.index \in {None} \cup { Some(o) : o \in TwoRunIndexOutcomes }
    /\ env'.llm_rag \in {None} \cup { Some(o) : o \in LLMOutcomes(TwoRunAnswers) }
    /\ env'.llm_query \in {None} \cup { Some(o) : o \in LLMOutcomes(TwoRunQueries) }
    /\ env'.web \in {None} \cup { Some(o) : o \in TwoRunWebOutcomes }
    /\ env'.llm_web \in {None} \cup { Some(o) : o \in LLMOutcomes(TwoRunAnswers) }

SetupNext ==
    \/ Setup
    \/ Ask
    \/ Next /\ FewOutcomes

SetupSpec == SetupInit /\ [][SetupNext]_vars

(***************************************************************************)
(* Direct calls of the pure functions, on arguments drawn from bounded     *)
(* sets: one call in a behaviour.                                          *)
(***************************************************************************)
\* longest score list passed to the scoring functions
MaxScores == 3

\* similarity scores in [0, 1] and the lists of them
ScoreValues ==
    { RZero, Round(<<1, 10>>), Round(<<1, 2>>), Round(<<9, 10>>), ROne }
ScoreLists == UNION { [1..n -> ScoreValues] : n \in 0..MaxScores }

\* values for relevance_threshold and min_confidence
Thresholds == { Round(<<2, 5>>), Round(<<1, 2>>), Round(<<9, 10>>) }

\* distances that include two below the spacing of the floats around 1
FineDistances ==
    Distances \cup { <<1, Pow2(Precision + 1)>>, <<1, Pow2(Precision + 2)>>,
                     <<1, 2>> }

\* answer texts put to the classifier
EnoughInformationExample ==
    <<"I", "don't", "have", "enough", "information", "in", "the", "context",
      "to", "answer", "this", ".">>
ParisExample ==
    <<"The", "capital", "of", "France", "is", "Paris", "[", "Page", "3", "]", ".">>
ClassifierTexts ==
    LLMAnswers
        \cup { EnoughInformationExample, ParisExample,
               <<"I", "CANNOT", "Answer", "that">>,
               <<"It", "is", "not", "mentioned", "in", "the", "given", "context">>,
               <<"The", "context", "is", "enough">>,
               RagApology, WebApology, NoInformationAnswer, <<>> }

Call_assess_relevance ==
    /\ call = None
    /\ \E scores \in ScoreLists, relevance_threshold \in Thresholds,
          min_confidence \in Thresholds :
          call' = Some([op |-> "assess_relevance",
                        scores |-> scores,
                        relevance_threshold |-> relevance_threshold,
                        min_confidence |-> min_confidence,
                        result |-> assess_relevance(
                                      [i \in 1..Len(scores) |-> CHOOSE d \in Corpus : TRUE],
                                      scores, relevance_threshold, min_confidence)])
    /\ UNCHANGED <<run_vars, first, other, system>>

Call_calculate_relevance_score ==
    /\ call = None
    /\ \E scores \in ScoreLists :
          call' = Some([op |-> "calculate_relevance_score",
                        scores |-> scores,
                        result |-> calculate_relevance_score(scores)])
    /\ UNCHANGED <<run_vars, first, other, system>>

Call_retrieve ==
    /\ call = None
    /\ \E results \in RankedResults(FineDistances) :
          call' = Some([op |-> "retrieve",
                        results |-> results,
                        result |-> retrieve(results)])
    /\ UNCHANGED <<run_vars, first, other, system>>

Call_answer_indicates_insufficient_info ==
    /\ call = None
    /\ \E answer \in ClassifierTexts :
          call' = Some([op |-> "_answer_indicates_insufficient_info",
                        answer |-> answer,
                        result |-> _answer_indicates_insufficient_info(answer)])
    /\ UNCHANGED <<run_vars, first, other, system>>

\* texts the model may return for the reformulation prompt, among them a
\* quoted blank, a two-letter word and a text with inner spaces
QueryTexts ==
    LLMQueries
        \cup { <<"\"", " ", " ", " ", "\"">>,
               <<"x", "y">>,
               <<"'", " ", "x", " ", "'", "\n">>,
               <<"x", "\t", "y">>,
               <<>> }

\* questions, among them one with two leading question words
CallQuestions ==
    Questions \cup { <<"w", "h", "o", " ", "w", "h", "o", " ", "x", "?">>,
                     <<"w", "h", "o", "?">> }

Call_reformulate_query_for_web ==
    /\ call = None
    /\ \E llm \in LLMOutcomes(QueryTexts), question \in CallQuestions :
          call' = Some([op |-> "reformulate_query_for_web",
                        llm |-> llm,
                        question |-> question,
                        result |-> reformulate_query_for_web(llm, question)])
    /\ UNCHANGED <<run_vars, first, other, system>>

\* longest passage list passed to get_source_metadata
MaxPassages == 3

\* passage lists: chunks of the corpus in any order, pages repeating
PassageLists == UNION { [1..n -> Corpus] : n \in 0..MaxPassages }

Call_get_source_metadata ==
    /\ call = None
    /\ \E documents \in PassageLists :
          call' = Some([op |-> "get_source_metadata",
                        documents |-> documents,
                        result |-> get_source_metadata(documents)])
    /\ UNCHANGED <<run_vars, first, other, system>>

\* largest max_retries given to retry_on_failure
MaxRetries == 3

\* what one invocation of the wrapped function does: it returns a value or
\* raises an exception
FuncOutcomes ==
    { [raised |-> FALSE, value |-> v, exception |-> None] : v \in {"v1", "v2"} }
        \cup { [raised |-> TRUE, value |-> None, exception |-> Some(e)] : e \in {"e1", "e2"} }

\* variant: one attempt more than max_retries
RetryRangeInclusive(max_retries) == 0..max_retries

\* range(max_retries)
RetryRange(max_retries) == 0..(max_retries - 1)

\* the wrapper made by retry_on_failure(max_retries) is called
Call_retry_on_failure ==
    /\ call = None
    /\ \E max_retries \in 1..MaxRetries :
          call' = Some([op |-> "retry_on_failure",
                        max_retries |-> max_retries,
                        attempt |-> 0,
                        last_exception |-> None,
                        invocations |-> <<>>,
                        sleeps |-> 0,
                        status |-> "running",
                        result |-> None])
    /\ UNCHANGED <<run_vars, first, other, system>>

\* one pass of the loop: func is invoked; its value is returned, or its
\* exception is kept and, unless this was the last attempt, the wrapper sleeps
RetryAttempt ==
    /\ call # None
    /\ call[1].op = "retry_on_failure"
    /\ call[1].status = "running"
    /\ call[1].attempt \in RetryRange(call[1].max_retries)
    /\ \E outcome \in FuncOutcomes :
          call' = Some(
            IF ~outcome.raised
            THEN [call[1] EXCEPT !.invocations = Append(@, outcome),
                                 !.status = "returned",
                                 !.result = Some(outcome.value)]
            ELSE [call[1] EXCEPT !.invocations = Append(@, outcome),
                                 !.last_exception = outcome.exception,
                                 !.sleeps = IF call[1].attempt < call[1].max_retries - 1
                                            THEN @ + 1 ELSE @,
                                 !.attempt = @ + 1])
    /\ UNCHANGED <<run_vars, first, other, system>>

\* the loop is over: raise last_exception
RetryExhausted ==
    /\ call # None
    /\ call[1].op = "retry_on_failure"
    /\ call[1].status = "running"
    /\ call[1].attempt \notin RetryRange(call[1].max_retries)
    /\ call' = Some([call[1] EXCEPT !.status = "raised",
                                    !.result = call[1].last_exception])
    /\ UNCHANGED <<run_vars, first, other, system>>

CallNext ==
    \/ Call_assess_relevance
    \/ Call_calculate_relevance_score
    \/ Call_retrieve
    \/ Call_answer_indicates_insufficient_info
    \/ Call_reformulate_query_for_web
    \/ Call_get_source_metadata
    \/ Call_retry_on_failure
    \/ RetryAttempt
    \/ RetryExhausted

CallSpec == Init /\ [][CallNext]_vars

\* the call made was of op
Called(op) == call # None /\ call[1].op = op

\* C1: the node after RetrieveKB is GenerateKBAnswer exactly when the
\* assessment computed in RetrieveKB is sufficient, and is NotifyFallback
\* otherwise (insufficient assessment, no passages, retrieval failure).
C1_RouteAfterRetrieval ==
    \A next \in NextAfter("retrieve_kb") :
        /\ next = "generate_rag_answer" <=> AssessedSufficient
        /\ ~AssessedSufficient => next = "notify_fallback"

\* passages were retrieved, the assessment found them insufficient, and the
\* node after RetrieveKB was NotifyFallback
C1_Witness ==
    /\ Len(trace) >= 2
    /\ trace[1] = "retrieve_kb"
    /\ trace[2] = "notify_fallback"
    /\ state.retrieved_documents # <<>>
    /\ "is_relevant" \in DOMAIN state.relevance_assessment

\* C2: when the KB answer text matches an insufficiency pattern,
\* GenerateKBAnswer sets needs_web_fallback and clears kb_sufficient, the
\* next node is NotifyFallback, and with at least one web result the final
\* source_type is "web".
C2_AnswerInsufficientFallsBack ==
    KbAnswerInsufficient =>
        /\ state.needs_web_fallback
        /\ ~state.is_knowledge_base_sufficient
        /\ NextAfter("generate_rag_answer") \subseteq {"notify_fallback"}
        /\ (Completed /\ state.web_results # <<>>) => state.source_type = "web"
        /\ (Completed /\ state.web_results # <<>> /\ response # None)
              => response[1].source_type = "web"

\* scenario B has run to its response: sufficient retrieval, an answer that
\* says the context lacks the information, web results, a web answer
C2_Witness ==
    /\ KbAnswerInsufficient
    /\ AssessedSufficient
    /\ state.web_results # <<>>
    /\ response # None
    /\ Completed
    /\ response[1].source_type = "web"

\* C3: when retrieval returns zero passages GenerateKBAnswer never runs, the
\* model is never asked for a KB answer, and the run goes from RetrieveKB to
\* NotifyFallback and on to the web path.
C3_ZeroPassagesSkipKBAnswer ==
    (trace # <<>> /\ state.retrieved_documents = <<>>) =>
        /\ "generate_rag_answer" \notin Range(trace)
        /\ pc # "generate_rag_answer"
        /\ "rag_answer" \notin Range(llm_calls)
        /\ NextAfter("retrieve_kb") \subseteq {"notify_fallback"}
        /\ NextAfter("notify_fallback") \subseteq {"search_web"}

\* the index returned an empty list (it did not raise) and the web search ran
C3_Witness ==
    /\ state.retrieved_documents = <<>>
    /\ "is_relevant" \in DOMAIN state.relevance_assessment
    /\ state.error = None
    /\ Len(trace) >= 3
    /\ trace[2] = "notify_fallback"
    /\ trace[3] = "search_web"

\* C4: when retrieval is sufficient and the KB answer matches no pattern, the
\* nodes run are exactly RetrieveKB, GenerateKBAnswer, FormatOutput; no
\* fallback node runs, no notice is attached, the source_type is
\* "knowledge_base".
C4_KBPathOnly ==
    KbAnswerAccepted =>
        /\ Range(trace) \cap FallbackNodes = {}
        /\ pc \notin FallbackNodes
        /\ "fallback_notification" \notin DOMAIN metadata
        /\ state.source_type = "knowledge_base"
        /\ NextAfter("generate_rag_answer") \subseteq {"format_output"}
        /\ Completed =>
              trace = <<"retrieve_kb", "generate_rag_answer", "format_output">>
        /\ (Completed /\ response # None) =>
              /\ response[1].source_type = "knowledge_base"
              /\ "fallback_notification" \notin DOMAIN response[1]

\* scenario A has run to its response, here with the model failing, so that
\* the answer is the apology text
C4_Witness ==
    /\ KbAnswerAccepted
    /\ kb_answer[1] = RagApology
    /\ Completed
    /\ response # None
    /\ response[1].source_type = "knowledge_base"

\* C5: when the fallback path runs and the web search gives no result, or
\* raises (which leaves no result), GenerateWebAnswer does not call the model
\* and the final answer is the fixed "neither source" text with source_type
\* "none".
C5_NoWebResultsNoAnswer ==
    /\ ("search_web" \in Range(trace) /\ state.error = Some("search error"))
          => state.web_results = <<>>
    /\ ("generate_web_answer" \in Range(trace) /\ state.web_results = <<>>) =>
          /\ "web_answer" \notin Range(llm_calls)
          /\ state.answer = NoInformationAnswer
          /\ state.source_type = "none"
          /\ (Completed /\ response # None) =>
                /\ response[1].answer = NoInformationAnswer
                /\ response[1].source_type = "none"

\* the web search raised after the fallback and the run has responded
C5_Witness ==
    /\ "generate_web_answer" \in Range(trace)
    /\ state.error = Some("search error")
    /\ Completed
    /\ response # None
    /\ response[1].source_type = "none"


SourceTypes == { "knowledge_base", "web", "none" }

\* C6: every response ask returns, on every path and under every failure,
\* the failure of the graph run included, has source_type in
\* {knowledge_base, web, none}.
C6_SourceTypeInContract ==
    response # None => response[1].source_type \in SourceTypes

\* C7: the response carries fallback_notification exactly when NotifyFallback
\* ran in that run; a run answered on the KB path alone never carries it.
C7_NotificationIffNotified ==
    response # None =>
        /\ "fallback_notification" \in DOMAIN response[1]
              <=> "notify_fallback" \in Range(trace)
        /\ trace = <<"retrieve_kb", "generate_rag_answer", "format_output">>
              => "fallback_notification" \notin DOMAIN response[1]

\* a response that carries the notice after the KB answer was rejected
C7_Witness ==
    /\ response # None
    /\ "fallback_notification" \in DOMAIN response[1]
    /\ response[1].fallback_notification = FallbackNotice
    /\ "generate_rag_answer" \in Range(trace)
    /\ "notify_fallback" \in Range(trace)

\* C8: whatever the collaborators do (return or raise), the run terminates:
\* ask returns a response, built from the state FormatOutput left at END or
\* from the failure state of run; no run stops in an intermediate node.
C8_RunTerminates ==
    <>(/\ pc = "returned"
       /\ response # None
       /\ Completed \/ final_state[1].error = Some("graph error"))

\* a run that went through END although the index and the web search raised
C8_Witness ==
    /\ pc = "returned"
    /\ Completed
    /\ state.error = Some("search error")
    /\ state.relevance_assessment = EmptyDict
    /\ trace[Len(trace)] = "format_output"

\* C9: in every terminal state the final answer, source_type and citations
\* come from one path: no final field keeps a value the other path's node
\* wrote.
C9_OnePathWritesFinalFields ==
    Completed =>
        Cardinality({ writer[f] : f \in DOMAIN writer } \ {""}) = 1

\* C10: needs_web_fallback is false initially, is set by no node other than
\* GenerateKBAnswer, and whenever it is true GenerateKBAnswer has run and
\* kb_sufficient is false.
C10_FallbackFlagOnlyAfterKBAnswer ==
    /\ ~state.needs_web_fallback
    /\ [](state.needs_web_fallback =>
            /\ "generate_rag_answer" \in Range(trace)
            /\ ~state.is_knowledge_base_sufficient)
    /\ [][state'.needs_web_fallback # state.needs_web_fallback
            => pc = "generate_rag_answer"]_vars

\* the flag is set and the web path has run to END
C10_Witness ==
    /\ state.needs_web_fallback
    /\ pc = "END"
    /\ "generate_web_answer" \in Range(trace)

\* both runs of a pair of the given kind ran the graph to END and returned
PairCompleted(mode) ==
    /\ first # None
    /\ first[1].mode = mode
    /\ pc = "returned"
    /\ Completed

\* C11 (as stated): two runs on the same question, with the index and the
\* web search answering the same, execute the same node sequence and end
\* with the same source_type, whatever text the language model returned.
C11_SamePathWhateverTheText ==
    PairCompleted("same_inputs") =>
        /\ trace = first[1].trace
        /\ response[1].source_type = first[1].source_type

\* C11 (amended): two such runs execute the same node sequence and end with
\* the same source_type provided the classifier gives the same verdict on
\* the two KB answers; the model's text may differ otherwise.
C11_SamePathGivenSameVerdict ==
    (PairCompleted("same_inputs") /\ Verdict(kb_answer) = Verdict(first[1].kb_answer)) =>
        /\ trace = first[1].trace
        /\ response[1].source_type = first[1].source_type

\* two completed runs whose KB answers differ in text, both judged
\* insufficient, both answered from the web
C11_Witness ==
    /\ PairCompleted("same_inputs")
    /\ kb_answer # None
    /\ first[1].kb_answer # None
    /\ kb_answer # first[1].kb_answer
    /\ Verdict(kb_answer) = "insufficient"
    /\ Verdict(first[1].kb_answer) = "insufficient"
    /\ response[1].source_type = "web"
    /\ trace = first[1].trace

\* a final state without its error slot
WithoutError(st) == [st EXCEPT !.error = None]

\* a final state without the three slots RetrieveKB fills differently when
\* the index raises
WithoutRetrievalSlots(st) ==
    [st EXCEPT !.error = None,
               !.retrieval_scores = <<>>,
               !.relevance_assessment = EmptyDict]

\* C12 (as stated): a run in which the index call raises behaves as the run
\* in which the index returns no passage, given the same model and web
\* results: same node sequence, same answer, source_type and citations,
\* metadata confidence 0.0, and final states that differ in the error slot
\* only.
C12_IndexFailureDiffersInErrorOnly ==
    PairCompleted("index_raises") =>
        /\ trace = first[1].trace
        /\ response = first[1].response
        /\ metadata["confidence"] = RZero
        /\ final_state[1].error # None
        /\ WithoutError(final_state[1]) = WithoutError(first[1].state[1])

\* C12 (amended): the two runs have the same node sequence, the same
\* response (answer, source_type, citations, metadata with confidence 0.0)
\* and final states that agree on every slot but three: error is set in the
\* raising run, and retrieval_scores and relevance_assessment stay empty
\* there while the zero-passage run holds [0.0] and its assessment.
C12_IndexFailureLikeNoPassages ==
    PairCompleted("index_raises") =>
        /\ trace = first[1].trace
        /\ response = first[1].response
        /\ metadata["confidence"] = RZero
        /\ final_state[1].error # None
        /\ WithoutRetrievalSlots(final_state[1]) = WithoutRetrievalSlots(first[1].state[1])
        /\ final_state[1].retrieval_scores = <<>>
        /\ first[1].state[1].retrieval_scores = <<RZero>>
        /\ final_state[1].relevance_assessment = EmptyDict
        /\ first[1].state[1].relevance_assessment =
               assess_relevance(<<>>, <<>>, RELEVANCE_THRESHOLD, MIN_CONFIDENCE_SCORE)

\* the raising run and the zero-passage run both completed with an answer
\* generated from web results
C12_Witness ==
    /\ PairCompleted("index_raises")
    /\ env.index # None
    /\ env.index[1].raised
    /\ first[1].env.index = Some(IndexReturnsNothing)
    /\ response[1].source_type = "web"
    /\ first[1].response[1].source_type = "web"
    /\ first[1].state[1].error = None

\* the collaborator call recorded under slot was made in this run and raised
Raised(slot) == env[slot] # None /\ env[slot][1].raised

\* C13: a failure of the language model during answer generation does not
\* abort the run.  On the KB path the answer is the fixed apology with
\* source_type "knowledge_base", no web fallback is requested and the next
\* node is FormatOutput; on the web path the answer is the fixed web apology
\* with source_type "web" and the next node is FormatOutput.
C13_GenerationFailureYieldsApology ==
    /\ Raised("llm_rag") =>
          /\ kb_answer = Some(RagApology)
          /\ state.answer = RagApology
          /\ state.source_type = "knowledge_base"
          /\ ~state.needs_web_fallback
          /\ NextAfter("generate_rag_answer") \subseteq {"format_output"}
          /\ Range(trace) \cap FallbackNodes = {}
    /\ Raised("llm_web") =>
          /\ state.answer = WebApology
          /\ state.source_type = "web"
          /\ NextAfter("generate_web_answer") \subseteq {"format_output"}

\* the model failed while generating the KB answer, the run went on through
\* FormatOutput and ask returned the apology
C13_Witness ==
    /\ Raised("llm_rag")
    /\ pc = "returned"
    /\ Completed
    /\ response[1].answer = RagApology
    /\ response[1].source_type = "knowledge_base"

\* C14: whenever a collaborator call fails inside a node (the index in
\* RetrieveKB, the model in GenerateKBAnswer or GenerateWebAnswer, the web
\* search in SearchWeb), the terminal state of the run has a non-null error.
C14_CollaboratorFailureRecorded ==
    (/\ pc = "END"
     /\ \E slot \in {"index", "llm_rag", "web", "llm_web"} : Raised(slot))
        => state.error # None

\* C15: when graph execution raises, run returns a state with error set and
\* the fixed error answer, and ask returns a response with the keys
\* question, answer, source_type, citations and metadata.
C15_GraphFailureGivesResponse ==
    (final_state # None /\ final_state[1].error = Some("graph error")) =>
        /\ pc \in {"respond", "returned"}
        /\ final_state[1].answer = RunErrorAnswer
        /\ pc = "returned" =>
              /\ response # None
              /\ {"question", "answer", "source_type", "citations", "metadata"}
                     \subseteq DOMAIN response[1]
              /\ response[1].question = initial_state.question
              /\ response[1].answer = RunErrorAnswer

\* graph execution raised after NotifyFallback had run, and ask returned
C15_Witness ==
    /\ pc = "returned"
    /\ ~Completed
    /\ "notify_fallback" \in Range(trace)
    /\ final_state[1].error = Some("graph error")
    /\ response[1].answer = RunErrorAnswer

\* the spec's formula  sum(score_i * weight_i) / sum(weight_i)  with
\* weight_i = 1/(rank_i + 1), evaluated in floats in rank order
RECURSIVE SumOfFirst(_, _)
SumOfFirst(f, n) == IF n = 0 THEN RZero ELSE FAdd(SumOfFirst(f, n - 1), f[n])

SpecConfidence(scores) ==
    LET n == Len(scores)
        weight == [p \in 1..n |-> FDiv(ROne, <<p, 1>>)]
    IN  FDiv(SumOfFirst([p \in 1..n |-> FMul(scores[p], weight[p])], n),
             SumOfFirst(weight, n))

\* the same weighted average without rounding
ExactConfidence(scores) ==
    LET n == Len(scores)
    IN  RDiv(RSum([p \in 1..n |-> RMul(scores[p], <<1, p>>)]),
             RSum([p \in 1..n |-> <<1, p>>]))

\* a <= b up to a relative rounding error of 2^-(Precision - 2)
LeqRounded(a, b) ==
    RGeq(RMul(b, <<Pow2(Precision - 2) + 1, Pow2(Precision - 2)>>), a)

\* a and b are equal up to that rounding error
WithinRounding(a, b) == LeqRounded(a, b) /\ LeqRounded(b, a)

RMin(s) == CHOOSE x \in Range(s) : \A y \in Range(s) : RGeq(y, x)

\* C16: assess_relevance gives is_relevant = false and confidence 0 for the
\* empty list; otherwise top_score is the maximum score, confidence is the
\* weighted average with weights 1/(rank + 1), and is_relevant holds exactly
\* when top_score >= relevance_threshold and confidence >= min_confidence.
\* Scores [0.9, 0.1] with thresholds 0.5 and 0.4 give confidence 0.95/1.5
\* (up to rounding) and is_relevant = true.
C16_AssessRelevanceFormula ==
    Called("assess_relevance") =>
        LET scores == call[1].scores
            r == call[1].result
        IN  /\ scores = <<>> => (~r.is_relevant /\ r.confidence = RZero)
            /\ scores # <<>> =>
                  /\ r.top_score \in Range(scores)
                  /\ \A i \in 1..Len(scores) : RGeq(r.top_score, scores[i])
                  /\ r.confidence = SpecConfidence(scores)
                  /\ WithinRounding(r.confidence, ExactConfidence(scores))
                  /\ r.is_relevant =
                        (/\ RGeq(r.top_score, call[1].relevance_threshold)
                         /\ RGeq(r.confidence, call[1].min_confidence))
            /\ (/\ scores = <<Round(<<9, 10>>), Round(<<1, 10>>)>>
                /\ call[1].relevance_threshold = Round(<<1, 2>>)
                /\ call[1].min_confidence = Round(<<2, 5>>)) =>
                  /\ r.is_relevant
                  /\ WithinRounding(r.confidence, RDiv(<<95, 100>>, <<3, 2>>))

\* the call with scores [0.9, 0.1] and thresholds 0.5 and 0.4
C16_Witness ==
    /\ Called("assess_relevance")
    /\ call[1].scores = <<Round(<<9, 10>>), Round(<<1, 10>>)>>
    /\ call[1].relevance_threshold = Round(<<1, 2>>)
    /\ call[1].min_confidence = Round(<<2, 5>>)
    /\ call[1].result.is_relevant

\* C17 (as stated): for a non-empty list of scores in [0, 1] the confidence
\* lies in [0, 1] and between the smallest score and the top score, and for
\* a single score it is that score.
C17_ConfidenceBetweenMinAndTop ==
    (Called("calculate_relevance_score") /\ call[1].scores # <<>>) =>
        LET scores == call[1].scores
            c == call[1].result
        IN  /\ RGeq(c, RZero) /\ RGeq(ROne, c)
            /\ RGeq(c, RMin(scores)) /\ RGeq(RMax(scores), c)
            /\ Len(scores) = 1 => c = scores[1]

\* C17 (amended): the confidence lies in [0, 1], equals the score for a
\* single score, and lies between the smallest and the top score up to
\* floating-point rounding (it can exceed the top score by a rounding error).
C17_ConfidenceBoundsUpToRounding ==
    (Called("calculate_relevance_score") /\ call[1].scores # <<>>) =>
        LET scores == call[1].scores
            c == call[1].result
        IN  /\ RGeq(c, RZero) /\ RGeq(ROne, c)
            /\ LeqRounded(RMin(scores), c) /\ LeqRounded(c, RMax(scores))
            /\ Len(scores) = 1 => c = scores[1]

\* equal scores whose rounded weighted average is above the top score
C17_Witness ==
    /\ Called("calculate_relevance_score")
    /\ Len(call[1].scores) >= 2
    /\ RLt(RMax(call[1].scores), call[1].result)
    /\ RGeq(ROne, call[1].result)

\* the scores retrieve computed are positive, at most 1, 1 at distance 0,
\* and in non-increasing order
SimilaritiesInRange ==
    LET results == call[1].results
        scores == call[1].result.scores
    IN  /\ Len(scores) = Len(results)
        /\ \A i \in 1..Len(scores) :
              /\ RLt(RZero, scores[i]) /\ RGeq(ROne, scores[i])
              /\ results[i].distance = RZero => scores[i] = ROne
        /\ \A i, j \in 1..Len(scores) : i < j => RGeq(scores[i], scores[j])

\* C18 (as stated): the conversion maps every distance d >= 0 into (0, 1],
\* maps 0 to 1 and is strictly decreasing in d; a best-first result list
\* gives non-increasing similarity scores.
C18_SimilarityStrictlyDecreasing ==
    Called("retrieve") =>
        /\ SimilaritiesInRange
        /\ \A i, j \in 1..Len(call[1].results) :
              RLt(call[1].results[i].distance, call[1].results[j].distance)
                  => RLt(call[1].result.scores[j], call[1].result.scores[i])

\* C18 (amended): the conversion maps every distance d >= 0 into (0, 1],
\* maps 0 to 1 and is non-increasing in d (two distances closer than the
\* float spacing get the same similarity); a best-first result list gives
\* non-increasing similarity scores.
C18_SimilarityNonIncreasing ==
    Called("retrieve") =>
        /\ SimilaritiesInRange
        /\ \A i, j \in 1..Len(call[1].results) :
              RGeq(call[1].results[j].distance, call[1].results[i].distance)
                  => RGeq(call[1].result.scores[i], call[1].result.scores[j])

\* two passages at different distances that get the same similarity
C18_Witness ==
    /\ Called("retrieve")
    /\ Len(call[1].results) = 2
    /\ RLt(call[1].results[1].distance, call[1].results[2].distance)
    /\ call[1].result.scores[1] = call[1].result.scores[2]

\* C19: the classifier returns true exactly when one of its patterns matches
\* somewhere in the text, ignoring case; it returns true for "I don't have
\* enough information in the context to answer this." and false for "The
\* capital of France is Paris [Page 3]."
C19_ClassifierMatchesAnyPattern ==
    Called("_answer_indicates_insufficient_info") =>
        LET answer == call[1].answer
            lowered == [i \in 1..Len(answer) |-> LowerWord(answer[i])]
        IN  /\ call[1].result <=>
                  \E p \in 1..Len(insufficient_patterns) :
                      SearchPattern(insufficient_patterns[p].head,
                                    insufficient_patterns[p].tail, lowered)
            /\ answer = EnoughInformationExample => call[1].result
            /\ answer = ParisExample => ~call[1].result
            /\ answer = <<"I", "CANNOT", "Answer", "that">> => call[1].result

\* the classifier was called on the first example and returned true
C19_Witness ==
    /\ Called("_answer_indicates_insufficient_info")
    /\ call[1].answer = EnoughInformationExample
    /\ call[1].result

\* C20: the query SearchWeb passes to the web search is never degenerate: it
\* is non-empty and has at least one alphanumeric character.
C20_WebQueryNotDegenerate ==
    state.web_search_query # None =>
        /\ state.web_search_query[1] # <<>>
        /\ \E i \in 1..Len(state.web_search_query[1]) :
              isalnum(<<state.web_search_query[1][i]>>)

\* the model's text after str.strip() and the removal of wrapping quotes
Cleaned(content) == stripChars(strip(content), QuoteChars)

AlnumOrSpace(s) ==
    \A i \in 1..Len(s) : s[i] = " " \/ isalnum(<<s[i]>>)

\* the rule-based reformulation on the questions of the model: lower case,
\* one leading question word and a final question mark removed
RuleBasedExamples ==
    /\ _simple_reformulation(<<"w", "h", "o", " ", "i", "s", " ", "x", "?">>)
           = <<"i", "s", " ", "x">>
    /\ _simple_reformulation(<<"w", "h", "o", " ", "w", "h", "o", " ", "x", "?">>)
           = <<"w", "h", "o", " ", "x">>
    /\ _simple_reformulation(<<"X", "y">>) = <<"x", "y">>

\* C21 (as stated): reformulate_query_for_web returns the model's text,
\* trimmed and without wrapping quotes, exactly when that text has at least
\* 3 characters and consists only of alphanumeric characters and spaces; in
\* every other case, a model failure included, it returns the rule-based
\* reformulation of the question.
C21_ModelTextIffAlnumAndSpaces ==
    Called("reformulate_query_for_web") =>
        LET llm == call[1].llm
            accepted == /\ ~llm.raised
                        /\ Len(Cleaned(llm.content)) >= 3
                        /\ AlnumOrSpace(Cleaned(llm.content))
        IN  /\ call[1].result = IF accepted THEN Cleaned(llm.content)
                                ELSE _simple_reformulation(call[1].question)
            /\ RuleBasedExamples

\* C21 (amended): the model's text is returned exactly when it has at least
\* 3 characters, consists only of alphanumeric characters and spaces, and
\* has at least one alphanumeric character; a text of spaces alone gets the
\* rule-based reformulation, as every other case does.
C21_ModelTextIffAlnumPresent ==
    Called("reformulate_query_for_web") =>
        LET llm == call[1].llm
            accepted == /\ ~llm.raised
                        /\ Len(Cleaned(llm.content)) >= 3
                        /\ AlnumOrSpace(Cleaned(llm.content))
                        /\ \E i \in 1..Len(Cleaned(llm.content)) :
                               isalnum(<<Cleaned(llm.content)[i]>>)
        IN  /\ call[1].result = IF accepted THEN Cleaned(llm.content)
                                ELSE _simple_reformulation(call[1].question)
            /\ RuleBasedExamples

\* the model returned three spaces in quotes and the question's rule-based
\* reformulation came back
C21_Witness ==
    /\ Called("reformulate_query_for_web")
    /\ ~call[1].llm.raised
    /\ Cleaned(call[1].llm.content) = <<" ", " ", " ">>
    /\ call[1].result = _simple_reformulation(call[1].question)
    /\ call[1].result # Cleaned(call[1].llm.content)

\* position of the first passage of documents on the given page
FirstOnPage(documents, page) ==
    CHOOSE i \in 1..Len(documents) :
        /\ documents[i].page = page
        /\ \A j \in 1..(i - 1) : documents[j].page # page

\* C22: get_source_metadata returns exactly one entry per distinct locator
\* (page) among the passages, in order of first occurrence, with the preview
\* of the first passage carrying that locator; later passages with a seen
\* locator add nothing.
C22_OneSourcePerLocator ==
    Called("get_source_metadata") =>
        LET documents == call[1].documents
            sources == call[1].result
        IN  /\ { sources[i].page : i \in 1..Len(sources) }
                  = { documents[j].page : j \in 1..Len(documents) }
            /\ \A i, j \in 1..Len(sources) :
                  i < j => /\ sources[i].page # sources[j].page
                           /\ FirstOnPage(documents, sources[i].page)
                                 < FirstOnPage(documents, sources[j].page)
            /\ \A i \in 1..Len(sources) :
                  LET doc == documents[FirstOnPage(documents, sources[i].page)]
                  IN  /\ sources[i].preview = Preview(doc.content)
                      /\ sources[i].source = doc.source

\* two passages of page 1 around one of page 2: two entries, the preview of
\* page 1 from the first of its passages
C22_Witness ==
    /\ Called("get_source_metadata")
    /\ Len(call[1].documents) = 3
    /\ call[1].documents[1].page = 1
    /\ call[1].documents[2].page = 2
    /\ call[1].documents[3].page = 1
    /\ call[1].documents[1].content # call[1].documents[3].content
    /\ Len(call[1].result) = 2
    /\ call[1].result[1].preview = Preview(call[1].documents[1].content)

\* the confidence of the assessment RetrieveKB computed in this run (0.0 when
\* the index call raised and no assessment exists)
AssessedConfidence ==
    IF Raised("index") THEN RZero
    ELSE RetrievedAndAssessed[env.index[1].results].assessment.confidence

\* C23: at termination, metadata confidence is the confidence of the
\* assessment computed in RetrieveKB (0.0 without an assessment), and the
\* source count in metadata is the number of sources of the path that gave
\* the final answer: the KB sources for source_type "knowledge_base", the
\* web sources for source_type "web".
C23_MetadataOfAnsweringPath ==
    pc = "END" =>
        /\ metadata["confidence"] = AssessedConfidence
        /\ state.source_type = "knowledge_base"
              => metadata["num_sources"] = Len(state.rag_sources)
        /\ state.source_type = "web"
              => metadata["num_sources"] = Len(state.web_sources)

(***************************************************************************)
(* What one call of run reaches when no other thread is in run: the graph  *)
(* walked from a fresh state for question q, the collaborators answering   *)
(* as recorded in e.  It gives the state at END and the metadata dict.     *)
(***************************************************************************)
AloneWebPath(s, e) ==
    LET notified == ApplyWrites(s, notify_user_fallback(s))
        searched == ApplyWrites(notified,
                        search_web(notified, e.llm_query[1], e.web[1]))
        answered == ApplyWrites(searched,
                        generate_web_answer(searched,
                            IF searched.web_results = <<>> THEN None
                            ELSE e.llm_web[1]))
    IN  [state |-> ApplyWrites(answered, format_final_output(answered)),
         metadata |-> format_final_output_metadata(answered,
                          notify_user_fallback_metadata(EmptyDict))]

AloneRun(q, e) ==
    LET created == ApplyWrites(create_initial_state(q), create_initial_state(q))
        retrieved == ApplyWrites(created, retrieve_from_kb(created, e.index[1]))
    IN  IF EdgeAfterRetrieval(retrieved) = "notify_fallback"
        THEN AloneWebPath(retrieved, e)
        ELSE LET kb == ApplyWrites(retrieved,
                           generate_rag_answer(retrieved, e.llm_rag[1]))
             IN  IF EdgeAfterRagAnswer(kb) = "notify_fallback"
                 THEN AloneWebPath(kb, e)
                 ELSE [state |-> ApplyWrites(kb, format_final_output(kb)),
                       metadata |-> format_final_output_metadata(kb, EmptyDict)]

\* the run r holds a state made from its own question, and, once run has
\* returned, the final state and metadata it would have reached alone
AsIfAlone(r) ==
    /\ r.state.question = r.initial_state.question
    /\ r.pc = "returned" =>
          /\ r.response[1].question = r.initial_state.question
          /\ r.response[1].metadata = r.metadata
          /\ IF "format_output" \in Range(r.trace)
             THEN LET alone == AloneRun(r.initial_state.question, r.env)
                  IN  /\ r.final_state[1] = alone.state
                      /\ r.metadata = alone.metadata
             ELSE r.final_state[1] =
                      [create_initial_state(r.initial_state.question)
                          EXCEPT !.error = Some("graph error"),
                                 !.answer = RunErrorAnswer]

\* the step is one of a node or of run or ask in the scheduled thread
SameThread == other # None /\ other' # None /\ other'[1].id = other[1].id

SetupSucceeded == "ok" \in Range(system.setups)

\* the step is a call of ask: ask was not in progress and now has raised at
\* once or is in run
AskCalled == pc \in Resting /\ pc' \in {"not_initialized", "retrieve_kb"} /\ pc' # pc

Positions(node) == { i \in 1..Len(trace) : trace[i] = node }

\* C26: in any run each of the six nodes executes at most once; RetrieveKB
\* is first and FormatOutput is last; NotifyFallback, SearchWeb and
\* GenerateWebAnswer execute all three, consecutively in that order, or not
\* at all; GenerateKBAnswer never executes after NotifyFallback.
C26_PathShape ==
    /\ \A node \in NodeNames : Cardinality(Positions(node)) <= 1
    /\ trace # <<>> => trace[1] = "retrieve_kb"
    /\ pc \in NodeNames => (pc = "retrieve_kb" <=> trace = <<>>)
    /\ Positions("format_output") \subseteq {Len(trace)}
    /\ "format_output" \in Range(trace) => pc \notin NodeNames
    /\ pc \in {"END", "returned"} /\ final_state # None /\ final_state[1].error # Some("graph error")
          => trace[Len(trace)] = "format_output"
    /\ pc = "END" => trace[Len(trace)] = "format_output"
    /\ NextAfter("notify_fallback") \subseteq {"search_web"}
    /\ NextAfter("search_web") \subseteq {"generate_web_answer"}
    /\ NextAfter("generate_web_answer") \subseteq {"format_output"}
    /\ \A i \in Positions("search_web") : i > 1 /\ trace[i - 1] = "notify_fallback"
    /\ \A i \in Positions("generate_web_answer") : i > 1 /\ trace[i - 1] = "search_web"
    /\ pc = "search_web" => trace[Len(trace)] = "notify_fallback"
    /\ pc = "generate_web_answer" => trace[Len(trace)] = "search_web"
    /\ Completed => \/ Range(trace) \cap FallbackNodes = {}
                    \/ FallbackNodes \subseteq Range(trace)
    /\ "notify_fallback" \in Range(trace) =>
          /\ pc # "generate_rag_answer"
          /\ \A i \in Positions("generate_rag_answer"), j \in Positions("notify_fallback") : i < j

\* the longest path: all six nodes, each once, the three fallback nodes in
\* a row after GenerateKBAnswer
C26_Witness ==
    /\ pc = "END"
    /\ trace = <<"retrieve_kb", "generate_rag_answer", "notify_fallback",
                 "search_web", "generate_web_answer", "format_output">>

\* the step is the execution of node
Executes(node) == trace' = Append(trace, node)

\* C27: NotifyFallback changes only the fallback notice in metadata:
\* question, retrieved passages, relevance assessment, kb_sufficient,
\* needs_web_fallback, answer, source_type, citations, web results and error
\* are unchanged by it, and its successor is SearchWeb.
C27_NotifyChangesNoticeOnly ==
    [][Executes("notify_fallback") =>
          /\ state'.question = state.question
          /\ state'.retrieved_documents = state.retrieved_documents
          /\ state'.relevance_assessment = state.relevance_assessment
          /\ state'.is_knowledge_base_sufficient = state.is_knowledge_base_sufficient
          /\ state'.needs_web_fallback = state.needs_web_fallback
          /\ state'.answer = state.answer
          /\ state'.source_type = state.source_type
          /\ state'.citations = state.citations
          /\ state'.web_results = state.web_results
          /\ state'.error = state.error
          /\ metadata' = Put(metadata, "fallback_notification", FallbackNotice)
          /\ pc' = "search_web"]_vars

\* C28: a function wrapped by retry_on_failure(max_retries = n), n >= 1, is
\* invoked at most n times per call; the wrapper returns the result of the
\* first invocation that does not raise and invokes no more; if all n
\* invocations raise it raises the exception of the last one.
C28_RetryAtMostNTimes ==
    Called("retry_on_failure") =>
        LET c == call[1]
            made == Len(c.invocations)
        IN  /\ made <= c.max_retries
            /\ \A i \in 1..(made - 1) : c.invocations[i].raised
            /\ (made > 0 /\ ~c.invocations[made].raised) =>
                  /\ c.status = "returned"
                  /\ c.result = Some(c.invocations[made].value)
            /\ c.status = "returned" => (made > 0 /\ ~c.invocations[made].raised)
            /\ c.status = "raised" =>
                  /\ made = c.max_retries
                  /\ \A i \in 1..made : c.invocations[i].raised
                  /\ c.result = c.invocations[made].exception
            /\ (c.status = "running" /\ made = c.max_retries) =>
                  c.last_exception = c.invocations[made].exception

\* three invocations raised, the first e1 and the last e2, and the wrapper
\* raised e2
C28_Witness ==
    /\ Called("retry_on_failure")
    /\ call[1].max_retries = 3
    /\ call[1].status = "raised"
    /\ Len(call[1].invocations) = 3
    /\ call[1].invocations[1].exception = Some("e1")
    /\ call[1].invocations[3].exception = Some("e2")
    /\ call[1].result = Some("e2")
    /\ call[1].sleeps = 2

\* the passages the index returned in this run
Retrieved ==
    IF Raised("index") THEN <<>>
    ELSE [i \in 1..Len(env.index[1].results) |-> env.index[1].results[i].doc]

\* C29: GenerateKBAnswer executes only in states where the retrieved passage
\* list is non-empty and rag_context is set: kb_sufficient = true after
\* RetrieveKB implies that passages were retrieved and formatted into
\* rag_context.
C29_KBAnswerHasContext ==
    /\ (trace = <<"retrieve_kb">> /\ state.is_knowledge_base_sufficient) =>
          /\ Retrieved # <<>>
          /\ state.retrieved_documents = Retrieved
          /\ state.rag_context = Some(format_context(Retrieved))
    /\ (pc = "generate_rag_answer" \/ "generate_rag_answer" \in Range(trace)) =>
          /\ state.retrieved_documents # <<>>
          /\ state.rag_context # None
          /\ state.rag_context = Some(format_context(Retrieved))

\* RetrieveKB found two passages sufficient and GenerateKBAnswer is next
C29_Witness ==
    /\ pc = "generate_rag_answer"
    /\ trace = <<"retrieve_kb">>
    /\ state.is_knowledge_base_sufficient
    /\ Len(state.retrieved_documents) = 2
    /\ state.rag_context # None
    /\ Len(state.rag_context[1]) = 2

\* C30: after RetrieveKB no later node changes the retrieved-passage list:
\* on every path the terminal state's retrieved_documents is exactly the
\* list the single retrieval call returned, nothing appended or duplicated.
C30_RetrievedPassagesKept ==
    /\ [][(trace # <<>> /\ pc \in NodeNames /\ pc' # "respond")
            => state'.retrieved_documents = state.retrieved_documents]_vars
    /\ [](pc = "END" => state.retrieved_documents = Retrieved)

====
